---- MODULE Spec2Model ----
(***************************************************************************)
(* Model of ollama_automatic_function_calling                              *)
(* (examples/ollama_chat_automatic_function_calling.py): the turn loop     *)
(* that calls a chat backend, runs the tools the assistant message asks    *)
(* for and appends the results to the caller's transcript.                 *)
(*                                                                         *)
(* Python values are modelled as follows.                                  *)
(*   None            the string marker None                                *)
(*   a dict          a set of <<key, value>> pairs with unique keys        *)
(*   an optional     a record [none |-> BOOLEAN, items |-> ...]            *)
(*   list or dict                                                          *)
(*   an f-string     the tuple of its pieces, in order                     *)
(*   a tool argument a record [kind, text, items]                          *)
(***************************************************************************)
EXTENDS Integers, Sequences, FiniteSets, TLC

\* Largest turn budget a caller passes as max_turns.
MaxTurns == 2

\* Largest number of tool-call requests in one assistant message.
MaxCalls == 2

None == "<None>"

\* ------------------------------------------------------------------------
\* Python helpers
\* ------------------------------------------------------------------------

\* Mutant of PyOr: the fallback is never used.
PyOrLeft(a, b) == a

\* `a or b` on names and attribute values: None and "" are falsy.
PyOr(a, b) == IF a = None \/ a = "" THEN b ELSE a

\* str() of a name inside an f-string.
PyStr(v) == IF v = None THEN "None" ELSE v

DictKeys(d) == {p[1] : p \in d}

\* dict.get(key), None when the key is absent.
DictGet(d, k) == IF k \in DictKeys(d) THEN (CHOOSE p \in d : p[1] = k)[2] ELSE None

\* d[key] = value
DictSet(d, k, v) == {p \in d : p[1] # k} \cup {<<k, v>>}

Digit(n) == CASE n = 0 -> "0" [] n = 1 -> "1" [] n = 2 -> "2" [] n = 3 -> "3"
              [] n = 4 -> "4" [] n = 5 -> "5" [] n = 6 -> "6" [] n = 7 -> "7"
              [] n = 8 -> "8" [] n = 9 -> "9"

RECURSIVE NatStr(_)
NatStr(n) == IF n < 10 THEN Digit(n) ELSE NatStr(n \div 10) \o Digit(n % 10)

\* str() of an int result.
IntStr(n) == IF n < 0 THEN "-" \o NatStr(0 - n) ELSE NatStr(n)

\* ------------------------------------------------------------------------
\* Tool arguments
\* ------------------------------------------------------------------------

EmptyDict == [kind |-> "dict", text |-> "", items |-> {}]

NoArgs == [kind |-> "none", text |-> "", items |-> {}]

DictArgs(items) == [kind |-> "dict", text |-> "", items |-> items]

TextArgs(text) == [kind |-> "str", text |-> text, items |-> {}]

ListValue(items) == [kind |-> "list", text |-> "", items |-> items]

\* Python truthiness of an argument value.
Truthy(v) ==
    CASE v.kind = "none" -> FALSE
      [] v.kind = "str" -> v.text # ""
      [] OTHER -> v.items # {}

\* `v or {}`
OrEmptyDict(v) == IF Truthy(v) THEN v ELSE EmptyDict

\* json.loads on the texts a backend sends: [ok, value].
JsonLoads(text) ==
    CASE text = "{\"a\": 1, \"b\": 2}" ->
            [ok |-> TRUE, value |-> DictArgs({<<"a", 1>>, <<"b", 2>>})]
      [] text = "{}" -> [ok |-> TRUE, value |-> EmptyDict]
      [] text = "[1, 2]" ->
            [ok |-> TRUE, value |-> ListValue({<<"0", 1>>, <<"1", 2>>})]
      [] OTHER -> [ok |-> FALSE, value |-> NoArgs]

\* ------------------------------------------------------------------------
\* Tools
\* ------------------------------------------------------------------------

\* The objects a caller may put into tools or tool_map.
\*   kind        "function" (a def), "dict" (a descriptor mapping),
\*               "object" (any other object)
\*   fn_name     function.name of a descriptor mapping
\*   name        the name attribute, __name__ the intrinsic identifier
\*   callable    callable(obj)
\*   wrapped     the object's __wrapped__ attribute (an id), or None
\*   body        the code that runs when the object is called
ToolObject(id) ==
    CASE id = "add" ->
            [kind |-> "function", fn_name |-> None, name |-> None, dunder_name |-> "add",
             callable |-> TRUE, wrapped |-> None, body |-> "add"]
      [] id = "div" ->
            [kind |-> "function", fn_name |-> None, name |-> None, dunder_name |-> "div",
             callable |-> TRUE, wrapped |-> None, body |-> "div"]
      [] id = "add_descriptor" ->
            [kind |-> "dict", fn_name |-> "add", name |-> None, dunder_name |-> None,
             callable |-> FALSE, wrapped |-> None, body |-> None]
      [] id = "div_descriptor" ->
            [kind |-> "dict", fn_name |-> "div", name |-> None, dunder_name |-> None,
             callable |-> FALSE, wrapped |-> None, body |-> None]
      [] id = "add_traced" ->
            [kind |-> "function", fn_name |-> None, name |-> None, dunder_name |-> "add",
             callable |-> TRUE, wrapped |-> "add", body |-> "traced"]
      [] id = "div_record" ->
            [kind |-> "object", fn_name |-> None, name |-> "div", dunder_name |-> None,
             callable |-> FALSE, wrapped |-> "div", body |-> None]
      [] OTHER ->
            [kind |-> "none", fn_name |-> None, name |-> None, dunder_name |-> None,
             callable |-> FALSE, wrapped |-> None, body |-> None]

\* Mutant of Callable: only the presence of the object is tested.
CallableIfPresent(id) == id # None

\* callable(obj); callable(None) is False.
Callable(id) == id # None /\ ToolObject(id).callable

ArgKeys(args) == DictKeys(args.items)

\* Calling body(**args): [ok, value, err]. add and div are the module's tools;
\* "traced" is a decorator's wrapper that does not return the tool's value.
CallBody(body, args) ==
    LET a == DictGet(args.items, "a")
        b == DictGet(args.items, "b")
    IN  CASE args.kind # "dict" ->
                [ok |-> FALSE, value |-> 0,
                 err |-> PyStr(body) \o "() argument after ** must be a mapping, not list"]
          [] body \notin {"add", "div", "traced"} ->
                [ok |-> FALSE, value |-> 0, err |-> "object is not callable"]
          [] body = "traced" -> [ok |-> TRUE, value |-> 0 - 1, err |-> ""]
          [] ArgKeys(args) # {"a", "b"} ->
                [ok |-> FALSE, value |-> 0,
                 err |-> PyStr(body)
                           \o "() missing 2 required positional arguments: 'a' and 'b'"]
          [] body = "add" -> [ok |-> TRUE, value |-> a + b, err |-> ""]
          [] body = "div" /\ b = 0 ->
                [ok |-> FALSE, value |-> 0, err |-> "division by zero"]
          [] OTHER -> [ok |-> TRUE, value |-> a \div b, err |-> ""]

\* str(result): an int for add, a float for div.
ResultStr(body, value) ==
    IF body = "div" THEN IntStr(value) \o ".0" ELSE IntStr(value)

\* ------------------------------------------------------------------------
\* Helpers of ollama_automatic_function_calling
\* ------------------------------------------------------------------------

NoList == [none |-> TRUE, items |-> <<>>]

SomeList(items) == [none |-> FALSE, items |-> items]

NoDict == [none |-> TRUE, items |-> {}]

SomeDict(items) == [none |-> FALSE, items |-> items]

\* A tool-call request as the backend returns it: a ToolCall object or a
\* mapping, each holding a function with name and arguments.
ToolCall(shape, name, arguments) ==
    [shape |-> shape, function |-> [name |-> name, arguments |-> arguments]]

\* model_dump of a ToolCall: the mapping form of the same request.
DumpToolCall(tc) == [tc EXCEPT !.shape = "dict"]

\* Mutant of DumpToolCalls: the requests are dropped from the dump.
DumpWithoutToolCalls(tcs) == <<>>

DumpToolCalls(tcs) == [i \in 1..Len(tcs) |-> DumpToolCall(tcs[i])]

\* A transcript entry: the keys it has and their values.
Entry(keys, role, content, tool_name, tcs) ==
    [keys |-> keys, role |-> role, content |-> content,
     tool_name |-> tool_name, tool_calls |-> tcs]

\* The three shapes of response.message: "model" has model_dump, "dict" is a
\* mapping, "opaque" is any other object with attributes.
_to_msg_dict(msg) ==
    CASE msg.shape = "model" ->
            \* model_dump(exclude_none=True)
            Entry({"role", "content"}
                    \cup (IF msg.tool_calls.none THEN {} ELSE {"tool_calls"}),
                  msg.role, msg.content, None, DumpToolCalls(msg.tool_calls.items))
      [] msg.shape = "dict" ->
            Entry({"role", "content"}
                    \cup (IF msg.tool_calls.none THEN {} ELSE {"tool_calls"}),
                  msg.role, msg.content, None, msg.tool_calls.items)
      [] OTHER ->
            Entry({"role", "content"}, msg.role, msg.content, None, <<>>)

\* (name, arguments) of a request; both shapes read function.name and
\* function.arguments, and falsy arguments become {}.
_extract_tool_call_parts(tool_call) ==
    LET function == tool_call.function
    IN  IF tool_call.shape = "dict"
        THEN [name |-> function.name, arguments |-> OrEmptyDict(function.arguments)]
        ELSE [name |-> function.name, arguments |-> OrEmptyDict(function.arguments)]

\* Mutant of _infer_tool_name: the fallback to __name__ is forgotten.
_infer_tool_name_attr_only(t) ==
    LET o == ToolObject(t)
    IN  CASE t = None -> None
          [] o.kind = "dict" -> o.fn_name
          [] OTHER -> IF PyOr(o.name, None) # None THEN o.name ELSE None

_infer_tool_name(t) ==
    LET o == ToolObject(t)
    IN  CASE t = None -> None
          [] o.kind = "dict" -> o.fn_name
          [] OTHER ->
                IF PyOr(o.name, None) # None THEN o.name
                ELSE IF PyOr(o.dunder_name, None) # None THEN o.dunder_name
                ELSE None

_resolve_callable(fn) ==
    LET wrapped == ToolObject(fn).wrapped
    IN  IF Callable(wrapped) THEN wrapped ELSE fn

\* for t in tools: name = _infer_tool_name(t); if name: tool_map[name] = t
RECURSIVE InferToolMap(_, _)
InferToolMap(tools, acc) ==
    IF tools = <<>> THEN acc
    ELSE LET name == _infer_tool_name(Head(tools))
         IN  InferToolMap(Tail(tools),
                          IF PyOr(name, None) # None
                          THEN DictSet(acc, name, Head(tools)) ELSE acc)

\* tool_map after lines 74-79.
BuildToolMap(kw_tools, kw_tool_map) ==
    IF kw_tool_map.none /\ ~kw_tools.none /\ kw_tools.items # <<>>
    THEN SomeDict(InferToolMap(kw_tools.items, {}))
    ELSE kw_tool_map

\* Mutant of reserved: the loop's own two parameters are not held back.
reserved_backend_names == {"model", "tools", "messages", "options"}

reserved == {"model", "tools", "messages", "options", "max_turns", "tool_map"}

\* The (key, value) items of **kwargs; the values of the reserved keys are
\* kept in their own fields of kwargs, here only their keys matter.
KwargsItems(kw) ==
    kw.extra
      \cup (IF kw.model # None THEN {<<"model", kw.model>>} ELSE {})
      \cup {<<"max_turns", IntStr(kw.max_turns)>>}
      \cup (IF kw.tools.none THEN {} ELSE {<<"tools", "list">>})
      \cup (IF kw.tool_map.none THEN {} ELSE {<<"tool_map", "dict">>})

ChatKwargs(kw) == {p \in KwargsItems(kw) : p[1] \notin reserved}

\* Mutant of ModelMissing: the check on model is dropped.
ModelNeverMissing(model) == FALSE

\* if model is None
ModelMissing(model) == model = None

\* Mutant of RangeHasNext: one iteration too many.
RangeHasNextInclusive(i, n) == i <= n

\* for _ in range(max_turns): another iteration after i completed ones.
RangeHasNext(i, n) == i < n

\* Mutant of ListAppend: the entry is inserted in front.
ListInsertFront(list, entry) == <<entry>> \o list

\* messages.append(entry)
ListAppend(list, entry) == Append(list, entry)

\* Mutant of NoToolCalls: the early return is never taken.
NeverReturnsEarly(tcs) == FALSE

\* if not tool_calls
NoToolCalls(tcs) == tcs = <<>>

\* tool_calls = getattr(assistant_msg, "tool_calls", None) or []
\* A mapping has no tool_calls attribute, whatever its keys.
GetToolCalls(msg) ==
    IF msg.shape = "dict" \/ msg.tool_calls.none THEN <<>> ELSE msg.tool_calls.items

\* tool_fn = tool_map.get(tool_name) if tool_map else None
LookupTool(tm, tool_name) ==
    IF ~tm.none /\ tm.items # {} THEN DictGet(tm.items, tool_name) ELSE None

\* Lines 117-123: textual arguments are decoded, {} on a decode failure.
DecodeArgs(tool_args) ==
    IF tool_args.kind = "str"
    THEN LET r == JsonLoads(tool_args.text) IN IF r.ok THEN r.value ELSE EmptyDict
    ELSE tool_args

NotFoundContent(tool_name) == <<"Tool '", PyStr(tool_name), "' not found.">>

\* Mutant of FailedContent: the error message is left out.
FailedContentNoError(tool_name, e) ==
    <<"Tool '", PyStr(tool_name), "' execution failed.">>

FailedContent(tool_name, e) ==
    <<"Tool '", PyStr(tool_name), "' execution failed: ", e>>

\* Mutant of CaughtByExcept: the tool call is not guarded.
NotCaught(e) == FALSE

\* except Exception: every error of the modelled tools is an Exception.
CaughtByExcept(e) == TRUE

\* ------------------------------------------------------------------------
\* Inputs: what the caller passes and what the backend answers
\* ------------------------------------------------------------------------

Models == {None, "", "glm-5:cloud"}

UserMessage ==
    Entry({"role", "content"}, "user", <<"4+7*9/6?">>, None, <<>>)

Transcripts == {<<UserMessage>>}

Options == SomeDict({<<"temperature", "1">>, <<"top_p", "1.0">>, <<"top_k", "60">>})

Extras == {{<<"think", "low">>}}

\* tools and tool_map as the caller passes them.
RegistryInputs ==
    { [tools |-> SomeList(<<"add", "div">>), tool_map |-> NoDict],
      [tools |-> SomeList(<<"add", "div">>),
       tool_map |-> SomeDict({<<"add", "add">>, <<"div", "div">>})],
      [tools |-> SomeList(<<"add_descriptor", "div_descriptor">>), tool_map |-> NoDict],
      [tools |-> NoList, tool_map |-> NoDict],
      [tools |-> SomeList(<<"add", "div">>),
       tool_map |-> SomeDict({<<"add", "add_traced">>, <<"div", "div_record">>})] }

MsgShapes == {"model", "dict", "opaque"}

\* A "model" message holds ToolCall objects, the other two hold mappings.
CallShape(shape) == IF shape = "model" THEN "object" ELSE "dict"

AddInts == [name |-> "add", arguments |-> DictArgs({<<"a", 4>>, <<"b", 7>>})]

AddText == [name |-> "add", arguments |-> TextArgs("{\"a\": 1, \"b\": 2}")]

AddBadText == [name |-> "add", arguments |-> TextArgs("not json")]

AddListText == [name |-> "add", arguments |-> TextArgs("[1, 2]")]

DivByZero == [name |-> "div", arguments |-> DictArgs({<<"a", 4>>, <<"b", 0>>})]

Ghost == [name |-> "ghost", arguments |-> NoArgs]

Nameless == [name |-> None, arguments |-> NoArgs]

\* What one backend may ask for during a conversation: each backend draws
\* its requests, in any number and order, from one of these sets.
Repertoires ==
    { {AddInts, DivByZero}, {AddInts, Ghost}, {Ghost, Nameless},
      {AddText, AddBadText}, {DivByZero, Ghost}, {AddListText, AddInts} }

ToolCalls(shape, rep) == {ToolCall(CallShape(shape), r.name, r.arguments) : r \in rep}

ToolCallLists(shape, rep) ==
    UNION {[1..n -> ToolCalls(shape, rep)] : n \in 0..MaxCalls}

\* The assistant messages a backend of the given shape may answer with.
Messages(shape, rep) ==
    {[shape |-> shape, role |-> "assistant", content |-> <<"">>, tool_calls |-> tcs] :
        tcs \in {NoList} \cup {SomeList(l) : l \in ToolCallLists(shape, rep)}}

\* ------------------------------------------------------------------------
\* State
\* ------------------------------------------------------------------------

VARIABLES
    pc,             \* "called", "loop", "tools", "returned", "raised"
    client_fn,      \* callable(client_fn)
    backend,        \* the shape of the messages client_fn answers with
    repertoire,     \* the requests client_fn may make
    messages,       \* the caller's list, mutated in place
    supplied,       \* messages as it was when the call was made
    options,
    kwargs,
    tool_map,
    last_response,  \* <<>> for None, <<response>> otherwise
    turn,           \* iterations of the for loop started so far
    tool_calls,     \* requests of the current turn not yet processed
    backend_calls,  \* every invocation of client_fn, in order
    responses,      \* every response client_fn returned, in order
    invocations,    \* every tool execution, in order
    result,         \* <<>> until the return, then <<[last_response, messages]>>
    error           \* the message of the failure raised, None if none

vars == <<pc, client_fn, backend, repertoire, messages, supplied, options, kwargs, tool_map,
          last_response, turn, tool_calls, backend_calls, responses, invocations,
          result, error>>

inputs == <<client_fn, backend, repertoire, supplied, options, kwargs>>

Init ==
    /\ pc = "called"
    /\ client_fn \in BOOLEAN
    /\ backend \in MsgShapes
    /\ repertoire \in Repertoires
    /\ messages \in Transcripts
    /\ supplied = messages
    /\ options = Options
    /\ \E m \in Models, n \in 0..MaxTurns, r \in RegistryInputs, x \in Extras :
          \* The loop only passes model on: an empty model is followed for
          \* one turn, a named one for the whole budget.
          /\ m = "" => n <= 1
          /\ kwargs = [model |-> m, max_turns |-> n, tools |-> r.tools,
                       tool_map |-> r.tool_map, extra |-> x]
    /\ tool_map = NoDict
    /\ last_response = <<>>
    /\ turn = 0
    /\ tool_calls = <<>>
    /\ backend_calls = <<>>
    /\ responses = <<>>
    /\ invocations = <<>>
    /\ result = <<>>
    /\ error = None

\* Lines 27-85: the configuration checks and the registry.
Call ==
    /\ pc = "called"
    /\ IF ModelMissing(kwargs.model)
       THEN /\ pc' = "raised"
            /\ error' = "model must be specified"
            /\ UNCHANGED tool_map
       ELSE /\ tool_map' = BuildToolMap(kwargs.tools, kwargs.tool_map)
            /\ IF ~client_fn
               THEN pc' = "raised" /\ error' = "client_fn must be a callable"
               ELSE pc' = "loop" /\ UNCHANGED error
    /\ UNCHANGED <<inputs, messages, last_response, turn, tool_calls,
                   backend_calls, responses, invocations, result>>

\* The named parameters of one client_fn invocation.
BackendCall(raised) ==
    [model |-> kwargs.model, tools |-> kwargs.tools, seen |-> messages,
     options |-> options, kwargs |-> ChatKwargs(kwargs), raised |-> raised]

\* Lines 87-101: one backend invocation that returns a response.
ChatTurn ==
    /\ pc = "loop"
    /\ RangeHasNext(turn, kwargs.max_turns)
    /\ \E assistant_msg \in Messages(backend, repertoire) :
          LET response == [call |-> Len(backend_calls) + 1, message |-> assistant_msg]
              appended == ListAppend(messages, _to_msg_dict(assistant_msg))
              requested == GetToolCalls(assistant_msg)
          IN  /\ backend_calls' = Append(backend_calls, BackendCall(FALSE))
              /\ responses' = Append(responses, response)
              /\ last_response' = <<response>>
              /\ messages' = appended
              /\ tool_calls' = requested
              /\ IF NoToolCalls(requested)
                 THEN /\ pc' = "returned"
                      /\ result' = <<[last_response |-> <<response>>,
                                      messages |-> appended]>>
                 ELSE /\ pc' = IF requested = <<>> THEN "loop" ELSE "tools"
                      /\ UNCHANGED result
    /\ turn' = turn + 1
    /\ UNCHANGED <<inputs, tool_map, invocations, error>>

\* Line 88 when client_fn raises: nothing catches it.
ChatRaises ==
    /\ pc = "loop"
    /\ RangeHasNext(turn, kwargs.max_turns)
    /\ backend_calls' = Append(backend_calls, BackendCall(TRUE))
    /\ turn' = turn + 1
    /\ pc' = "raised"
    /\ error' = "backend failure"
    /\ UNCHANGED <<inputs, messages, tool_map, last_response, tool_calls,
                   responses, invocations, result>>

\* After a request is processed: the next one, or the next iteration.
NextRequest ==
    /\ tool_calls' = Tail(tool_calls)
    /\ pc' = IF Tail(tool_calls) = <<>> THEN "loop" ELSE "tools"

\* Lines 104-115: the request names no callable of the registry.
ToolNotFound ==
    /\ pc = "tools"
    /\ LET parts == _extract_tool_call_parts(Head(tool_calls))
           tool_name == parts.name
           tool_fn == LookupTool(tool_map, tool_name)
       IN  /\ ~Callable(tool_fn)
           /\ messages' = ListAppend(messages,
                  Entry({"role", "content", "tool_name"}, "tool",
                        NotFoundContent(tool_name), PyOr(tool_name, "unknown_tool"),
                        <<>>))
    /\ NextRequest
    /\ UNCHANGED <<inputs, tool_map, last_response, turn, backend_calls,
                   responses, invocations, result, error>>

\* Lines 104-107 and 117-137: the request names a callable, which is run.
ToolExecute ==
    /\ pc = "tools"
    /\ LET parts == _extract_tool_call_parts(Head(tool_calls))
           tool_name == parts.name
           tool_fn == LookupTool(tool_map, tool_name)
           tool_args == DecodeArgs(parts.arguments)
           target == _resolve_callable(tool_fn)
           body == ToolObject(target).body
           r == CallBody(body, OrEmptyDict(tool_args))
           content == IF r.ok THEN <<ResultStr(body, r.value)>>
                      ELSE FailedContent(tool_name, r.err)
       IN  /\ Callable(tool_fn)
           /\ invocations' =
                 IF OrEmptyDict(tool_args).kind = "dict"
                 THEN Append(invocations,
                             [fn |-> target, args |-> OrEmptyDict(tool_args)])
                 ELSE invocations
           /\ IF r.ok \/ CaughtByExcept(r.err)
              THEN /\ messages' = ListAppend(messages,
                          Entry({"role", "content", "tool_name"}, "tool",
                                content, tool_name, <<>>))
                   /\ NextRequest
                   /\ UNCHANGED error
              ELSE /\ pc' = "raised"
                   /\ error' = r.err
                   /\ UNCHANGED <<messages, tool_calls>>
    /\ UNCHANGED <<inputs, tool_map, last_response, turn, backend_calls,
                   responses, result>>

\* Mutant of SafetyExit: running out of turns is raised as an error.
SafetyExitRaises ==
    /\ pc = "loop"
    /\ ~RangeHasNext(turn, kwargs.max_turns)
    /\ pc' = "raised"
    /\ error' = "max_turns is reached"
    /\ UNCHANGED <<inputs, messages, tool_map, last_response, turn, tool_calls,
                   backend_calls, responses, invocations, result>>

\* Line 140: the budget is used up.
SafetyExit ==
    /\ pc = "loop"
    /\ ~RangeHasNext(turn, kwargs.max_turns)
    /\ pc' = "returned"
    /\ result' = <<[last_response |-> last_response, messages |-> messages]>>
    /\ UNCHANGED <<inputs, messages, tool_map, last_response, turn, tool_calls,
                   backend_calls, responses, invocations, error>>

Next == Call \/ ChatTurn \/ ChatRaises \/ ToolNotFound \/ ToolExecute \/ SafetyExit

Spec == Init /\ [][Next]_vars

\* ------------------------------------------------------------------------
\* Properties
\* ------------------------------------------------------------------------

\* The tool-call requests an assistant message carries, whatever its shape.
Requested(msg) == IF msg.tool_calls.none THEN <<>> ELSE msg.tool_calls.items

ConfigErrors == {"model must be specified", "client_fn must be a callable"}

IsPrefix(a, b) == Len(a) <= Len(b) /\ SubSeq(b, 1, Len(a)) = a

IsFailedEntry(e) ==
    e.role = "tool" /\ Len(e.content) = 4 /\ e.content[3] = "' execution failed: "

IsNotFoundEntry(e) ==
    e.role = "tool" /\ Len(e.content) = 3 /\ e.content[3] = "' not found."

HeadParts == _extract_tool_call_parts(Head(tool_calls))

HeadFn == LookupTool(tool_map, HeadParts.name)

HeadOutcome ==
    CallBody(ToolObject(_resolve_callable(HeadFn)).body,
             OrEmptyDict(DecodeArgs(HeadParts.arguments)))

\* The request about to be processed names a callable whose call raises.
HeadRaises == pc = "tools" /\ Callable(HeadFn) /\ ~HeadOutcome.ok

\* C1: one invocation of the loop performs at most max_turns backend
\* invocations, whatever the backend and the tools do.
C1_AtMostMaxTurnsCalls == Len(backend_calls) <= kwargs.max_turns

C1_Witness ==
    /\ pc = "returned"
    /\ kwargs.max_turns = MaxTurns
    /\ Len(backend_calls) = kwargs.max_turns

\* C2 (as claimed): a loop invocation that returns does so either on the first
\* turn whose response requests no tools, or after max_turns backend
\* invocations none of whose responses was free of requests.
C2_ReturnsOneOfTwoWays ==
    pc = "returned" =>
        LET free == {i \in 1..Len(responses) : Requested(responses[i].message) = <<>>}
        IN  IF free # {} THEN free = {Len(responses)}
            ELSE Len(backend_calls) = kwargs.max_turns

\* C3: when the callable a request resolves to raises, exactly one tool entry
\* "Tool '<name>' execution failed: <error>" naming the tool is appended,
\* nothing is raised, and the loop goes on with the next request of the turn
\* or, after the last one, with the next turn.
C3_ToolFailureIsolated ==
    [][HeadRaises =>
          /\ Len(messages') = Len(messages) + 1
          /\ IsPrefix(messages, messages')
          /\ LET e == messages'[Len(messages')]
             IN  /\ e.role = "tool"
                 /\ e.keys = {"role", "content", "tool_name"}
                 /\ e.tool_name = HeadParts.name
                 /\ e.content = <<"Tool '", HeadParts.name,
                                  "' execution failed: ", HeadOutcome.err>>
                 /\ HeadOutcome.err # ""
          /\ error' = None
          /\ tool_calls' = Tail(tool_calls)
          /\ pc' = IF Len(tool_calls) > 1 THEN "tools" ELSE "loop"]_vars

C3_Witness ==
    /\ Len(backend_calls) >= 2
    /\ \E i \in 1..(Len(messages) - 1) :
          /\ IsFailedEntry(messages[i])
          /\ messages[i + 1].role = "tool"

\* C4 (as claimed): whatever is raised out of an invocation is a
\* configuration error.
C4_OnlyConfigErrorsRaised == pc = "raised" => error \in ConfigErrors

\* C4 (amended): what is raised out of an invocation is a configuration
\* error raised before any backend invocation, or the failure of the backend
\* invocation that was just made; tool lookup, argument decoding and tool
\* execution never raise out of the loop.
C4_OnlyConfigOrBackendRaised ==
    pc = "raised" =>
        \/ error \in ConfigErrors /\ backend_calls = <<>>
        \/ /\ error = "backend failure"
           /\ backend_calls # <<>>
           /\ backend_calls[Len(backend_calls)].raised
           /\ Len(responses) = Len(backend_calls) - 1

C4_Witness ==
    /\ pc = "returned"
    /\ \E i \in 1..Len(messages) : IsFailedEntry(messages[i])
    /\ \E i \in 1..Len(messages) : IsNotFoundEntry(messages[i])

\* C5 (as claimed): between turns and at the return, the assistant message of
\* the last response is followed by one tool entry per request it carries,
\* and the loop has returned on a message that carries requests only if the
\* turn budget is used up.
C5_RequestsAlwaysProcessed ==
    (pc \in {"loop", "returned"} /\ responses # <<>>) =>
        LET n == Len(Requested(responses[Len(responses)].message))
        IN  /\ Len(messages) >= Len(supplied) + 1 + n
            /\ messages[Len(messages) - n].role = "assistant"
            /\ \A i \in (Len(messages) - n + 1)..Len(messages) :
                  messages[i].role = "tool"
            /\ (pc = "returned" /\ n > 0) => turn = kwargs.max_turns

\* C6: if the first response carries no tool-call requests, the invocation
\* has returned after exactly one backend invocation and the transcript is
\* the supplied one plus exactly one entry, the assistant message.
C6_FirstResponseWithoutTools ==
    (responses # <<>> /\ Requested(responses[1].message) = <<>>) =>
        /\ pc = "returned"
        /\ Len(backend_calls) = 1
        /\ Len(messages) = Len(supplied) + 1
        /\ IsPrefix(supplied, messages)
        /\ messages[Len(messages)].role = "assistant"

C6_Witness ==
    /\ pc = "returned"
    /\ kwargs.max_turns = MaxTurns
    /\ Len(responses) = 1
    /\ Requested(responses[1].message) = <<>>

\* Every response so far requests one tool call whose name the registry
\* does not have.
OnlyUnknownTools ==
    \A i \in 1..Len(responses) :
        LET r == Requested(responses[i].message)
        IN  Len(r) = 1 /\ LookupTool(tool_map, r[1].function.name) = None

\* C7 (as claimed): with a backend whose every response requests one tool
\* call absent from the registry, the loop returns after exactly max_turns
\* iterations with max_turns assistant entries alternating with max_turns
\* tool-not-found entries.
C7_UnknownToolEveryTurn ==
    (pc = "returned" /\ OnlyUnknownTools) =>
        /\ Len(backend_calls) = kwargs.max_turns
        /\ Len(messages) = Len(supplied) + 2 * kwargs.max_turns
        /\ \A k \in 1..kwargs.max_turns :
              /\ messages[Len(supplied) + 2 * k - 1].role = "assistant"
              /\ IsNotFoundEntry(messages[Len(supplied) + 2 * k])

\* C8: once the loop is entered, if max_turns responses have arrived and each
\* of them carries tool-call requests, nothing is raised, and what is returned
\* is the max_turns-th response (None when max_turns is 0) with the
\* transcript accumulated over all turns.
C8_ExhaustionReturnsLast ==
    (/\ pc \in {"returned", "raised"}
     /\ error \notin ConfigErrors
     /\ Len(responses) = kwargs.max_turns
     /\ \A i \in 1..Len(responses) : Requested(responses[i].message) # <<>>) =>
        /\ pc = "returned"
        /\ result = <<[last_response |->
                          IF kwargs.max_turns = 0 THEN <<>>
                          ELSE <<responses[kwargs.max_turns]>>,
                       messages |-> messages]>>
        /\ IsPrefix(supplied, messages)
        /\ Len(messages) >= Len(supplied) + kwargs.max_turns

C8_Witness ==
    /\ pc = "returned"
    /\ kwargs.max_turns = MaxTurns
    /\ Len(responses) = MaxTurns
    /\ \A i \in 1..Len(responses) : GetToolCalls(responses[i].message) # <<>>

C10_AppendOnly ==
    /\ [][IsPrefix(messages, messages')]_vars
    /\ [](IsPrefix(supplied, messages))
    /\ [](pc = "returned" => result # <<>> /\ result[1].messages = messages)

C10_Witness ==
    /\ pc = "returned"
    /\ Len(messages) >= Len(supplied) + 4

\* The place of turn i's assistant entry in the transcript when every
\* earlier turn left its assistant entry and one entry per request.
RECURSIVE TurnStart(_)
TurnStart(i) ==
    IF i = 1 THEN Len(supplied) + 1
    ELSE TurnStart(i - 1) + 1 + Len(Requested(responses[i - 1].message))

\* The j-th request of turn i and the place of its tool entry.
RequestAt(i, j) == Requested(responses[i].message)[j].function

EntryPos(i, j) == TurnStart(i) + j

\* The requests whose tool entry is in the transcript.
Processed ==
    {ij \in (1..Len(responses)) \X (1..MaxCalls) :
        /\ ij[2] <= Len(Requested(responses[ij[1]].message))
        /\ EntryPos(ij[1], ij[2]) <= Len(messages)}

\* The name a tool descriptor goes by: function.name of a mapping, else the
\* name attribute, else the function's own declared name.
DescriptorName(t) ==
    LET o == ToolObject(t)
    IN  IF o.kind = "dict" THEN o.fn_name
        ELSE IF o.name # None THEN o.name ELSE o.dunder_name

\* The explicit name -> tool mapping of a list of tools under their names.
ExplicitMap(tools) ==
    SomeDict({<<DescriptorName(tools[k]), tools[k]>> : k \in 1..Len(tools)})

\* The registry was inferred from tools (no tool_map was passed).
Inferred == pc # "called" /\ ~ModelMissing(kwargs.model)
              /\ kwargs.tool_map.none /\ ~kwargs.tools.none

RequestNames == {r.name : r \in repertoire}

\* C11: a registry inferred from the tools resolves every requested name to
\* the same registry entry, found or not, as the explicit mapping of the same
\* tools under their descriptor names does, and an explicit mapping is used as
\* it was passed.
C11_InferredResolvesAsExplicit ==
    /\ Inferred =>
          \A n \in RequestNames \cup DictKeys(ExplicitMap(kwargs.tools.items).items) :
              LookupTool(tool_map, n) = LookupTool(ExplicitMap(kwargs.tools.items), n)
    /\ (pc # "called" /\ ~ModelMissing(kwargs.model) /\ ~kwargs.tool_map.none) =>
          tool_map = kwargs.tool_map

C11_Witness ==
    /\ Inferred
    /\ pc = "returned"
    /\ invocations # <<>>
    /\ \E i \in 1..Len(messages) : IsNotFoundEntry(messages[i])

\* C12 (as claimed): every processed request of a found tool whose arguments
\* are text had the tool invoked with the mapping the text decodes to, or
\* with the empty mapping when the text does not decode to a mapping, and
\* its tool entry is what the tool yields on those arguments.
C12_TextArgumentsDecodedOrEmpty ==
    \A ij \in Processed :
        LET req == RequestAt(ij[1], ij[2])
            tool_fn == LookupTool(tool_map, req.name)
            target == _resolve_callable(tool_fn)
            d == JsonLoads(req.arguments.text)
            args == IF d.ok /\ d.value.kind = "dict" THEN d.value ELSE EmptyDict
            out == CallBody(ToolObject(target).body, args)
        IN  (Callable(tool_fn) /\ req.arguments.kind = "str") =>
                /\ \E k \in 1..Len(invocations) :
                      invocations[k] = [fn |-> target, args |-> args]
                /\ messages[EntryPos(ij[1], ij[2])].content =
                      IF out.ok THEN <<ResultStr(ToolObject(target).body, out.value)>>
                      ELSE FailedContent(req.name, out.err)

\* The registry resolves "add" to the module's add.
AddRegistered ==
    LET f == LookupTool(tool_map, "add")
    IN  Callable(f) /\ ToolObject(_resolve_callable(f)).body = "add"

\* C13 (as claimed): every processed request of a found tool that returned
\* normally left exactly the entry {role: tool, content: str(value),
\* tool_name: name}; and when turn 1 requests add with {a: 4, b: 7}, add is
\* registered, turns remain and turn 2 requests no tools, the loop returns
\* after two backend invocations with the supplied transcript followed by
\* assistant, tool "11", assistant.
C13_FoundToolEntryAndScenario ==
    /\ \A ij \in Processed :
          LET req == RequestAt(ij[1], ij[2])
              tool_fn == LookupTool(tool_map, req.name)
              body == ToolObject(_resolve_callable(tool_fn)).body
              out == CallBody(body, OrEmptyDict(DecodeArgs(req.arguments)))
          IN  (Callable(tool_fn) /\ out.ok) =>
                  messages[EntryPos(ij[1], ij[2])] =
                      Entry({"role", "content", "tool_name"}, "tool",
                            <<ResultStr(body, out.value)>>, req.name, <<>>)
    /\ (/\ pc = "returned"
        /\ kwargs.max_turns >= 2
        /\ AddRegistered
        /\ Len(Requested(responses[1].message)) = 1
        /\ RequestAt(1, 1) = AddInts
        /\ Len(responses) >= 2 => Requested(responses[2].message) = <<>>) =>
          /\ Len(backend_calls) = 2
          /\ Len(messages) = Len(supplied) + 3
          /\ IsPrefix(supplied, messages)
          /\ messages[Len(supplied) + 1].role = "assistant"
          /\ messages[Len(supplied) + 2] =
                Entry({"role", "content", "tool_name"}, "tool", <<"11">>, "add", <<>>)
          /\ messages[Len(supplied) + 3].role = "assistant"

\* C14: every backend invocation is made with the model, tools and options
\* the caller passed and with the caller's extra named parameters as they
\* were passed; none of the reserved names is among the extra parameters
\* forwarded.
C14_BackendParametersForwarded ==
    \A i \in 1..Len(backend_calls) :
        /\ backend_calls[i].model = kwargs.model
        /\ backend_calls[i].tools = kwargs.tools
        /\ backend_calls[i].options = options
        /\ backend_calls[i].kwargs = kwargs.extra
        /\ DictKeys(backend_calls[i].kwargs)
              \cap {"model", "tools", "messages", "options", "max_turns", "tool_map"} = {}

C14_Witness ==
    /\ Len(backend_calls) = MaxTurns
    /\ ~kwargs.tool_map.none
    /\ kwargs.extra # {}

\* C15 (as claimed): between turns and at the return, the transcript is the
\* supplied one followed, turn by turn, by the assistant entry and one tool
\* entry per request of that turn, in the order of the requests, each naming
\* its request; and every backend invocation after the first was made on
\* the transcript holding all of that, up to the end of the turn before.
C15_OneToolEntryPerRequestInOrder ==
    /\ (pc \in {"loop", "returned"} /\ responses # <<>>) =>
          LET last == Len(responses)
          IN  /\ Len(messages) = TurnStart(last) + Len(Requested(responses[last].message))
              /\ \A i \in 1..last :
                    /\ messages[TurnStart(i)].role = "assistant"
                    /\ \A j \in 1..Len(Requested(responses[i].message)) :
                          /\ messages[EntryPos(i, j)].role = "tool"
                          /\ messages[EntryPos(i, j)].tool_name =
                                PyOr(RequestAt(i, j).name, "unknown_tool")
    /\ \A k \in 2..Len(backend_calls) :
          /\ Len(responses) >= k - 1
          /\ Len(backend_calls[k].seen) = TurnStart(k) - 1
          /\ IsPrefix(backend_calls[k].seen, messages)

\* C16: every entry appended to the transcript has its role set, assistant
\* or tool, and every appended tool entry carries a tool_name: the name of
\* its request, or "unknown_tool" when the request has none.
C16_RoleAndToolNameSet ==
    /\ \A p \in (Len(supplied) + 1)..Len(messages) :
          /\ "role" \in messages[p].keys
          /\ messages[p].role \in {"assistant", "tool"}
          /\ messages[p].role = "tool" =>
                /\ "tool_name" \in messages[p].keys
                /\ messages[p].tool_name \notin {None, ""}
    /\ \A i \in 1..Len(responses) :
          LET start == TurnStart(i)
              req == Requested(responses[i].message)
          IN  \A j \in 1..Len(req) :
                  start + j <= Len(messages) =>
                      /\ messages[start + j].role = "tool"
                      /\ messages[start + j].tool_name =
                            IF req[j].function.name = None THEN "unknown_tool"
                            ELSE req[j].function.name

C16_Witness ==
    /\ pc = "returned"
    /\ backend = "opaque"
    /\ \E p \in 1..Len(messages) :
          messages[p].role = "tool" /\ messages[p].tool_name = "unknown_tool"
    /\ \E p \in 1..Len(messages) :
          messages[p].role = "tool" /\ messages[p].tool_name = "ghost"

\* The loop has returned after max_turns >= 1 responses, each with requests.
Exhausted ==
    /\ pc = "returned"
    /\ kwargs.max_turns >= 1
    /\ Len(responses) = kwargs.max_turns
    /\ \A i \in 1..Len(responses) : Requested(responses[i].message) # <<>>

LastAssistant ==
    CHOOSE p \in 1..Len(messages) :
        /\ messages[p].role = "assistant"
        /\ \A q \in (p + 1)..Len(messages) : messages[q].role # "assistant"

\* The last assistant entry carries the requests of the final response.
CarriesFinalRequests ==
    LET e == messages[LastAssistant]
        req == Requested(responses[Len(responses)].message)
    IN  /\ "tool_calls" \in e.keys
        /\ Len(e.tool_calls) = Len(req)
        /\ \A j \in 1..Len(req) : e.tool_calls[j].function = req[j].function

\* C17 (as claimed): when the turn budget is exhausted, the last assistant
\* entry of the returned transcript carries the tool_calls of the final
\* response, whatever the shape of the message.
C17_ExhaustionVisibleForEveryShape == Exhausted => CarriesFinalRequests

\* C17 (amended): when the turn budget is exhausted, the last assistant entry
\* of the returned transcript carries the tool_calls of the final response if
\* the message is a serializable object or a mapping; for an opaque object
\* the entry has role and content only.
C17_ExhaustionVisibleUnlessOpaque ==
    Exhausted =>
        IF backend = "opaque"
        THEN messages[LastAssistant].keys = {"role", "content"}
        ELSE CarriesFinalRequests

C17_Witness ==
    /\ Exhausted
    /\ backend = "model"
    /\ kwargs.max_turns = MaxTurns

\* C18 (as claimed): for every processed request whose name has a registry
\* entry, the call was executed on the entry's wrapped original when that is
\* invocable, also when the entry itself is not, and otherwise on the entry
\* itself when it is invocable.
C18_WrappedOriginalExecuted ==
    \A ij \in Processed :
        LET req == RequestAt(ij[1], ij[2])
            entry == LookupTool(tool_map, req.name)
            wrapped == ToolObject(entry).wrapped
            target == IF Callable(wrapped) THEN wrapped ELSE entry
        IN  (entry # None /\ Callable(target)
               /\ OrEmptyDict(DecodeArgs(req.arguments)).kind = "dict") =>
                /\ ~IsNotFoundEntry(messages[EntryPos(ij[1], ij[2])])
                /\ \E k \in 1..Len(invocations) :
                      /\ invocations[k].fn = target
                      /\ invocations[k].args = OrEmptyDict(DecodeArgs(req.arguments))

\* The tools of the caller's list that are descriptor mappings.
DescriptorTools ==
    {kwargs.tools.items[k] : k \in {q \in 1..Len(kwargs.tools.items) :
                                       ToolObject(kwargs.tools.items[q]).kind = "dict"}}

\* C19: with a registry inferred from tools, a descriptor mapping is
\* registered under its function.name, every processed request naming it left
\* the entry "Tool '<name>' not found.", and whatever was executed is an
\* invocable of the tools list or the wrapped original of one.
C19_DescriptorsNeverExecuted ==
    Inferred =>
        /\ \A t \in DescriptorTools :
              LookupTool(tool_map, ToolObject(t).fn_name) \in DescriptorTools
        /\ \A i \in 1..Len(responses) :
              LET start == TurnStart(i)
                  req == Requested(responses[i].message)
              IN  \A j \in 1..Len(req) :
                      (/\ start + j <= Len(messages)
                       /\ LookupTool(tool_map, req[j].function.name) \in DescriptorTools) =>
                          messages[start + j] =
                              Entry({"role", "content", "tool_name"}, "tool",
                                    <<"Tool '", req[j].function.name, "' not found.">>,
                                    req[j].function.name, <<>>)
        /\ \A k \in 1..Len(invocations) :
              \E q \in 1..Len(kwargs.tools.items) :
                  /\ ToolObject(kwargs.tools.items[q]).callable
                  /\ invocations[k].fn \in
                        {kwargs.tools.items[q], ToolObject(kwargs.tools.items[q]).wrapped}

C19_Witness ==
    /\ Inferred
    /\ DescriptorTools # {}
    /\ pc = "returned"
    /\ invocations = <<>>
    /\ \E ij \in Processed :
          /\ RequestAt(ij[1], ij[2]).name = "add"
          /\ IsNotFoundEntry(messages[EntryPos(ij[1], ij[2])])

\* C20: at every return the returned last_response is the response of the
\* most recent backend invocation; it is None exactly when no backend
\* invocation was made, which is exactly when max_turns <= 0, and then the
\* transcript is returned as it was supplied.
C20_LastResponseIsMostRecent ==
    pc = "returned" =>
        /\ result # <<>>
        /\ Len(responses) = Len(backend_calls)
        /\ result[1].last_response =
              IF backend_calls = <<>> THEN <<>> ELSE <<responses[Len(responses)]>>
        /\ responses # <<>> => responses[Len(responses)].call = Len(backend_calls)
        /\ (result[1].last_response = <<>>) <=> (backend_calls = <<>>)
        /\ (backend_calls = <<>>) <=> (kwargs.max_turns <= 0)
        /\ kwargs.max_turns <= 0 => result[1].messages = supplied

C20_Witness ==
    /\ pc = "returned"
    /\ kwargs.max_turns = 0
    /\ result[1].last_response = <<>>
    /\ result[1].messages = supplied

====
